---- MODULE Spec2Model ----
(***************************************************************************)
(* Model of mmdb_intervals: IPv4 addresses as 32-bit ordinals, half-open   *)
(* intervals built from CIDR strings (interval.go), the merge loop of the  *)
(* driver and the batched hand-over to the nftables set (main.go).         *)
(*                                                                         *)
(* Representation.                                                         *)
(*  - A byte slice (net.IP, net.IPMask) is a sequence of bytes; the nil    *)
(*    slice is the empty sequence.                                         *)
(*  - A uint32 is the pair <<hi, lo>> of its 16-bit halves, so that the    *)
(*    full 32-bit width, its order and its wrap-around are kept.           *)
(*  - A pointer to an Address or Interval is a sequence of length 0 (nil)  *)
(*    or 1.                                                                *)
(*  - A CIDR string is its parsed text: the address bytes as written and   *)
(*    the prefix length as written.                                        *)
(***************************************************************************)
EXTENDS Integers, Sequences, FiniteSets, TLC

\* interval.go:11  const size = net.IPv4len
size == 4

\* main.go:16  const batchSize = 1000
batchSize == 1000

(***************************************************************************)
(* Bounds of the model.                                                    *)
(***************************************************************************)
\* Number of database records the driver reads in one run.
MaxNetworks == 5

\* Ordinals 65533 .. 65533 + MaxOrdinal (and 0, 1, 2^32-1) are the bounds of
\* the intervals on which CanJoin and Join are applied directly.
MaxOrdinal == 5

\* Largest collection handed to addToSet.
MaxSinkIntervals == 1001

(***************************************************************************)
(* Pointers and byte slices.                                               *)
(***************************************************************************)
Nil == <<>>

Ptr(x) == <<x>>

Deref(p) == p[1]

Limb == 65536

\* uint32 arithmetic and order on <<hi, lo>>
U32(n) == <<n \div Limb, n % Limb>>

U32Inc(i) ==
  IF i[2] = Limb - 1 THEN <<(i[1] + 1) % Limb, 0>> ELSE <<i[1], i[2] + 1>>

U32Less(x, y) == x[1] < y[1] \/ (x[1] = y[1] /\ x[2] < y[2])

U32Leq(x, y) == x = y \/ U32Less(x, y)

U32Zero == <<0, 0>>

U32Max == <<Limb - 1, Limb - 1>>

RECURSIVE BitOr(_, _)
BitOr(x, y) ==
  IF x = 0 THEN y
  ELSE IF y = 0 THEN x
  ELSE (IF x % 2 = 1 \/ y % 2 = 1 THEN 1 ELSE 0) + 2 * BitOr(x \div 2, y \div 2)

RECURSIVE BitAnd(_, _)
BitAnd(x, y) ==
  IF x = 0 \/ y = 0 THEN 0
  ELSE (IF x % 2 = 1 /\ y % 2 = 1 THEN 1 ELSE 0) + 2 * BitAnd(x \div 2, y \div 2)

\* ^b on a byte
BitNot(x) == 255 - x

(***************************************************************************)
(* The parts of package net the program calls.                             *)
(***************************************************************************)
v4InV6Prefix == <<0, 0, 0, 0, 0, 0, 0, 0, 0, 0, 255, 255>>

\* net.IPv4(a, b, c, d): the 16-byte form of an IPv4 address
IPv4(a, b, c, d) == v4InV6Prefix \o <<a, b, c, d>>

\* Copied from net package: is p all zeros?
isZeros(p) == \A i \in 1..Len(p) : p[i] = 0

\* ip.To4(): the 4-byte form, or nil when ip is not an IPv4 address
To4(ip) ==
  IF Len(ip) = 4 THEN ip
  ELSE IF Len(ip) = 16 /\ SubSeq(ip, 1, 12) = v4InV6Prefix THEN SubSeq(ip, 13, 16)
  ELSE Nil

\* net.CIDRMask(ones, bits)
RECURSIVE CIDRMask(_, _)
CIDRMask(ones, bits) ==
  IF bits <= 0 THEN <<>>
  ELSE <<IF ones >= 8 THEN 255 ELSE IF ones <= 0 THEN 0 ELSE 256 - 2 ^ (8 - ones)>>
       \o CIDRMask(ones - 8, bits - 8)

\* ip.Mask(mask)
RECURSIVE AndBytes(_, _)
AndBytes(ip, mask) ==
  IF ip = <<>> THEN <<>>
  ELSE <<BitAnd(Head(ip), Head(mask))>> \o AndBytes(Tail(ip), Tail(mask))

IPMask(ip, mask) ==
  LET ip4 == IF Len(mask) = 4 /\ Len(ip) = 16 /\ SubSeq(ip, 1, 12) = v4InV6Prefix
             THEN SubSeq(ip, 13, 16) ELSE ip
  IN IF Len(ip4) # Len(mask) THEN Nil ELSE AndBytes(ip4, mask)

\* Number of leading one bits of a byte of a canonical mask
ByteOnes(m) == CHOOSE n \in 0..8 : m = 256 - 2 ^ (8 - n)

\* mask.Size(): the prefix length of a canonical mask
MaskOnes(mask) ==
  LET RECURSIVE Sum(_)
      Sum(i) == IF i > Len(mask) THEN 0 ELSE ByteOnes(mask[i]) + Sum(i + 1)
  IN Sum(1)

\* net.ParseCIDR on the text "addr/ones": the address as written (16-byte
\* form) and the network it lies in; err for text that is no CIDR.
ParseCIDR(CIDR) ==
  IF ~(Len(CIDR.addr) \in {4, 16}) \/ CIDR.ones > 8 * Len(CIDR.addr)
  THEN [err |-> TRUE, ip |-> Nil, subnet |-> [IP |-> Nil, Mask |-> Nil]]
  ELSE LET ip == IF Len(CIDR.addr) = 4
                 THEN IPv4(CIDR.addr[1], CIDR.addr[2], CIDR.addr[3], CIDR.addr[4])
                 ELSE CIDR.addr
           m == CIDRMask(CIDR.ones, 8 * Len(CIDR.addr))
       IN [err |-> FALSE, ip |-> ip, subnet |-> [IP |-> IPMask(ip, m), Mask |-> m]]

\* subnet.String(): the text "IP/ones" of a network
IPNetString(subnet) ==
  LET nn == IF To4(subnet.IP) # Nil THEN To4(subnet.IP) ELSE subnet.IP
      m == IF Len(nn) = 4 /\ Len(subnet.Mask) = 16
           THEN SubSeq(subnet.Mask, 13, 16) ELSE subnet.Mask
  IN [addr |-> nn, ones |-> MaskOnes(m)]

(***************************************************************************)
(* interval.go: Address                                                    *)
(***************************************************************************)
\* binary.Read(buf, binary.BigEndian, &i) on the 4 bytes of ipv4.To4()
a2i(ipv4) ==
  LET ip == To4(ipv4)
  IN <<ip[1] * 256 + ip[2], ip[3] * 256 + ip[4]>>

\* binary.Write(buf, binary.BigEndian, i), then net.IPv4 of the 4 bytes
i2IP(i) == IPv4(i[1] \div 256, i[1] % 256, i[2] \div 256, i[2] % 256)

NewAddress(ipv4) ==
  LET ip == To4(ipv4)
  IN IF ip = Nil THEN Nil
     ELSE Ptr([IPAddress |-> ip, IntValue |-> a2i(ip)])

\* A wrong validity test that only looks at the length.
ValidLengthOnly(a) == Len(a.IPAddress) = size

Valid(a) ==
  /\ Len(a.IPAddress) = size
  /\ ~isZeros(a.IPAddress)
  /\ a.IntValue # U32Zero

ToIP(a) == IPv4(a.IPAddress[1], a.IPAddress[2], a.IPAddress[3], a.IPAddress[4])

netMask(subnet) ==
  LET m == SubSeq(subnet, Len(subnet) - size + 1, Len(subnet))
  IN <<m[1], m[2], m[3], m[4]>>

\* The bits in the hostmask for IPv4 are the ones NOT in the netmask.
hostMask(nm) == <<BitNot(nm[1]), BitNot(nm[2]), BitNot(nm[3]), BitNot(nm[4])>>

broadcast(subNet) ==
  LET h == hostMask(netMask(subNet.Mask))
      ip == subNet.IP
  IN NewAddress(IPv4(BitOr(ip[1], h[1]), BitOr(ip[2], h[2]),
                     BitOr(ip[3], h[3]), BitOr(ip[4], h[4])))

\* A wrong successor that saturates at the top instead of wrapping.
NextSaturating(a) ==
  IF ~Valid(a) THEN Nil
  ELSE IF a.IntValue = U32Max THEN NewAddress(i2IP(U32Max))
  ELSE NewAddress(i2IP(U32Inc(a.IntValue)))

Next(a) ==
  IF ~Valid(a) THEN Nil
  ELSE NewAddress(i2IP(U32Inc(a.IntValue)))

(***************************************************************************)
(* interval.go: Interval                                                   *)
(***************************************************************************)
NewInterval(CIDR) ==
  LET p == ParseCIDR(CIDR)
  IN IF p.err THEN Nil
     ELSE IF SubSeq(p.subnet.Mask, Len(p.subnet.Mask) - size + 1, Len(p.subnet.Mask))
             = <<255, 255, 255, 255>> THEN Nil
     ELSE IF p.ip = Nil \/ isZeros(p.ip) THEN Nil
     ELSE LET network == NewAddress(p.ip)
          IN IF network = Nil THEN Nil
             ELSE IF ~Valid(Deref(network)) THEN Nil
             ELSE LET broadcastAddress == broadcast(p.subnet)
                  IN IF ~Valid(Deref(broadcastAddress)) THEN Nil
                     ELSE LET nextAddress == Next(Deref(broadcastAddress))
                          IN IF ~Valid(Deref(nextAddress)) THEN Nil
                             ELSE Ptr([lower |-> Deref(network),
                                       upper |-> Deref(nextAddress)])

\* A wrong overlap test that misses ranges that only touch.
CanJoinStrict(a, b) ==
  LET aLower == Deref(a).lower.IntValue
      bLower == Deref(b).lower.IntValue
      aUpper == Deref(a).upper.IntValue
      bUpper == Deref(b).upper.IntValue
  IN \/ U32Leq(aLower, bLower) /\ U32Less(bLower, aUpper)
     \/ U32Less(aLower, bUpper) /\ U32Leq(bLower, aLower)

\* A wrong overlap test that forgets the second case.
CanJoinFirstCase(a, b) ==
  LET aLower == Deref(a).lower.IntValue
      bLower == Deref(b).lower.IntValue
      aUpper == Deref(a).upper.IntValue
  IN U32Leq(aLower, bLower) /\ U32Leq(bLower, aUpper)

CanJoin(a, b) ==
  LET aLower == Deref(a).lower.IntValue
      bLower == Deref(b).lower.IntValue
      aUpper == Deref(a).upper.IntValue
      bUpper == Deref(b).upper.IntValue
  IN \/ U32Leq(aLower, bLower) /\ U32Leq(bLower, aUpper)  \* a overlaps lower end of b
     \/ U32Leq(aLower, bUpper) /\ U32Leq(bLower, aLower)  \* a overlaps upper end of b

min(a, b) == IF U32Leq(a.IntValue, b.IntValue) THEN a ELSE b

max(a, b) == IF U32Leq(b.IntValue, a.IntValue) THEN a ELSE b

\* A wrong join that keeps a's upper bound.
JoinKeepUpper(a, b) ==
  IF ~CanJoin(a, b) THEN Nil
  ELSE Ptr([lower |-> min(Deref(a).lower, Deref(b).lower),
            upper |-> Deref(a).upper])

Join(a, b) ==
  IF ~CanJoin(a, b) THEN Nil
  ELSE Ptr([lower |-> min(Deref(a).lower, Deref(b).lower),
            upper |-> max(Deref(a).upper, Deref(b).upper)])

Lower(n) == ToIP(Deref(n).lower)

Upper(n) == ToIP(Deref(n).upper)

(***************************************************************************)
(* State.                                                                  *)
(***************************************************************************)
VARIABLES
  \* main: the merge loop over the database's networks
  pc,         \* "read" | "country" | "done"
  intervals,  \* var intervals []*Interval
  subnet,     \* the network of the current record
  iso,        \* record.Country.IsoCode of the current record
  ci,         \* position in the range over countries
  nread,      \* records read so far
  new,        \* the Interval of the last NewInterval call of the loop
  inserted,   \* history: every Interval the merge scan was given
  \* NewInterval applied to one CIDR string
  cidr, created, npc,
  \* CanJoin and Join applied to one pair of Intervals
  opA, opB, canAB, canBA, joined, jpc,
  \* addToSet
  given,      \* the collection handed to addToSet
  elements,   \* var elements []nftables.SetElement
  start,      \* start of the current batch (0-based, as in the code)
  batches,    \* the <<start, end>> of every slice given to SetAddElements
  submitted,  \* every element given to SetAddElements so far, in order
  flushes,    \* number of Flush calls so far
  err,        \* the error addToSet returns, "" for nil
  spc         \* "lookup" | "add" | "flush" | "done" | "error"

mainVars == <<pc, intervals, subnet, iso, ci, nread, new, inserted>>

newVars == <<cidr, created, npc>>

joinVars == <<opA, opB, canAB, canBA, joined, jpc>>

sinkVars == <<given, elements, start, batches, submitted, flushes, err, spc>>

vars == <<mainVars, newVars, joinVars, sinkVars>>

NoNet == [IP |-> Nil, Mask |-> Nil]

NoCIDR == [addr |-> Nil, ones |-> 0]

MainIdle ==
  /\ pc = "idle" /\ intervals = <<>> /\ subnet = NoNet /\ iso = "" /\ ci = 0
  /\ nread = 0 /\ new = Nil /\ inserted = {}

NewIdle == cidr = NoCIDR /\ created = Nil /\ npc = "idle"

JoinIdle ==
  /\ opA = Nil /\ opB = Nil /\ canAB = FALSE /\ canBA = FALSE
  /\ joined = Nil /\ jpc = "idle"

SinkIdle ==
  /\ given = <<>> /\ elements = <<>> /\ start = 0 /\ batches = <<>>
  /\ submitted = <<>> /\ flushes = 0 /\ err = "" /\ spc = "idle"

(***************************************************************************)
(* NewInterval applied to CIDR strings.                                    *)
(***************************************************************************)
NewAddrs ==
  { <<10, 0, 0, 0>>, <<10, 0, 0, 5>>, <<10, 0, 255, 254>>, <<192, 160, 0, 0>>,
    <<192, 168, 11, 12>>, <<223, 252, 192, 0>>, <<255, 255, 255, 0>>,
    <<255, 255, 255, 255>>, <<0, 0, 0, 0>>, <<0, 0, 0, 5>>, <<0, 0, 1, 0>>,
    <<127, 255, 255, 255>>, <<128, 0, 0, 0>> }

NewOnes == {0, 1, 8, 12, 18, 24, 30, 31, 32, 33}

\* 2001:db8::
V6Addr == <<32, 1, 13, 184, 0, 0, 0, 0, 0, 0, 0, 0, 0, 0, 0, 0>>

\* ::ffff:10.0.0.0 written as an IPv6 address
V4MappedAddr == IPv4(10, 0, 0, 0)

CIDRStrings ==
  [addr : NewAddrs, ones : NewOnes]
  \cup [addr : {V6Addr, V4MappedAddr}, ones : {32, 120, 128, 129}]
  \cup {NoCIDR}

InitNew ==
  /\ cidr \in CIDRStrings /\ created = Nil /\ npc = "input"
  /\ MainIdle /\ JoinIdle /\ SinkIdle

ApplyNewInterval ==
  /\ npc = "input"
  /\ created' = NewInterval(cidr)
  /\ npc' = "done"
  /\ UNCHANGED <<cidr, mainVars, joinVars, sinkVars>>

NextNew == ApplyNewInterval

SpecNew == InitNew /\ [][NextNew]_vars

(***************************************************************************)
(* CanJoin and Join applied to pairs of Intervals.                         *)
(***************************************************************************)
JoinOrdinals ==
  {U32Zero, U32(1), U32Max} \cup {U32(Limb - 3 + k) : k \in 0..MaxOrdinal}

AddressOf(i) == Deref(NewAddress(i2IP(i)))

Intervals ==
  {Ptr([lower |-> AddressOf(l), upper |-> AddressOf(u)]) :
     l \in JoinOrdinals, u \in JoinOrdinals}

InitJoin ==
  /\ opA \in Intervals /\ opB \in Intervals
  /\ canAB = FALSE /\ canBA = FALSE /\ joined = Nil /\ jpc = "input"
  /\ MainIdle /\ NewIdle /\ SinkIdle

ApplyJoin ==
  /\ jpc = "input"
  /\ canAB' = CanJoin(opA, opB)
  /\ canBA' = CanJoin(opB, opA)
  /\ joined' = Join(opA, opB)
  /\ jpc' = "done"
  /\ UNCHANGED <<opA, opB, mainVars, newVars, sinkVars>>

NextJoin == ApplyJoin

SpecJoin == InitJoin /\ [][NextJoin]_vars

(***************************************************************************)
(* main: the merge loop.                                                   *)
(***************************************************************************)
\* flag.Args(): the requested ISO country codes
countries == <<"SE", "NO">>

\* record.Country.IsoCode of the database's records
DbIsoCodes == {"NO", "DK"}

Network(addr, ones) ==
  [IP |-> IPMask(IPv4(addr[1], addr[2], addr[3], addr[4]), CIDRMask(ones, 32)),
   Mask |-> CIDRMask(ones, 32)]

\* The networks db.Networks() may yield: aligned IPv4 networks around
\* 10.0.255.255 / 10.1.0.0, a host route, the two ends of the address space
\* and an IPv6 network.
DbNetworks ==
  { Network(<<10, 0, 255, 252>>, 31), Network(<<10, 0, 255, 254>>, 31),
    Network(<<10, 1, 0, 0>>, 31), Network(<<10, 1, 0, 2>>, 31),
    Network(<<10, 0, 255, 252>>, 30), Network(<<10, 1, 0, 0>>, 30),
    Network(<<10, 0, 255, 248>>, 29),
    Network(<<10, 1, 0, 1>>, 32),
    Network(<<255, 255, 255, 254>>, 31),
    Network(<<0, 0, 0, 0>>, 31),
    [IP |-> V6Addr, Mask |-> CIDRMask(32, 128)] }

\* Index of the first entry the scan of lines 61-75 joins new with, 0 if none
FirstJoinable(coll, n) ==
  LET J == {i \in 1..Len(coll) : CanJoin(n, coll[i])}
  IN IF J = {} THEN 0 ELSE CHOOSE i \in J : \A j \in J : i <= j

\* A wrong scan without the break: new is joined into every joinable entry.
RECURSIVE JoinEvery(_, _)
JoinEvery(coll, n) ==
  IF coll = <<>> THEN <<>>
  ELSE <<IF CanJoin(n, Head(coll)) THEN Join(n, Head(coll)) ELSE Head(coll)>>
       \o JoinEvery(Tail(coll), n)

InsertNoBreak(coll, n) ==
  IF n = Nil THEN coll
  ELSE IF FirstJoinable(coll, n) # 0 THEN JoinEvery(coll, n)
  ELSE Append(coll, n)

\* A wrong scan that joins new with the first entry whatever it is.
InsertJoinFirst(coll, n) ==
  IF n = Nil THEN coll
  ELSE IF coll # <<>>
       THEN [coll EXCEPT ![1] =
               Ptr([lower |-> min(Deref(n).lower, Deref(coll[1]).lower),
                    upper |-> max(Deref(n).upper, Deref(coll[1]).upper)])]
  ELSE Append(coll, n)

\* Lines 58-79: what one new Interval does to the collection
Insert(coll, n) ==
  IF n = Nil THEN coll
  ELSE IF FirstJoinable(coll, n) # 0
       THEN [coll EXCEPT ![FirstJoinable(coll, n)] =
               Join(n, coll[FirstJoinable(coll, n)])]
  ELSE Append(coll, n)

InitMain ==
  /\ pc = "read" /\ intervals = <<>> /\ subnet = NoNet /\ iso = "" /\ ci = 0
  /\ nread = 0 /\ new = Nil /\ inserted = {}
  /\ NewIdle /\ JoinIdle /\ SinkIdle

\* networks.Next() is true: lines 43-48, one record is read; an IPv6 network
\* is skipped.
ReadNetwork(net, code) ==
  /\ pc = "read"
  /\ nread < MaxNetworks
  /\ nread' = nread + 1
  /\ IF To4(net.IP) # Nil
     THEN /\ subnet' = net /\ iso' = code /\ ci' = 1 /\ pc' = "country"
     ELSE /\ UNCHANGED <<subnet, iso, ci, pc>>
  /\ UNCHANGED <<intervals, new, inserted, newVars, joinVars, sinkVars>>

\* Lines 49-81: one iteration of the range over countries
CountryStep ==
  /\ pc = "country"
  /\ ci <= Len(countries)
  /\ ci' = ci + 1
  /\ IF iso = countries[ci]
     THEN /\ new' = NewInterval(IPNetString(subnet))
          /\ intervals' = Insert(intervals, new')
          /\ inserted' = IF new' = Nil THEN inserted ELSE inserted \cup {new'}
     ELSE UNCHANGED <<new, intervals, inserted>>
  /\ UNCHANGED <<pc, subnet, iso, nread, newVars, joinVars, sinkVars>>

\* The range over countries is exhausted: back to networks.Next()
CountriesDone ==
  /\ pc = "country"
  /\ ci > Len(countries)
  /\ pc' = "read" /\ subnet' = NoNet /\ iso' = "" /\ ci' = 0 /\ new' = Nil
  /\ UNCHANGED <<intervals, nread, inserted, newVars, joinVars, sinkVars>>

\* networks.Next() is false: line 85 on
EndOfNetworks ==
  /\ pc = "read"
  /\ pc' = "done"
  /\ UNCHANGED <<intervals, subnet, iso, ci, nread, new, inserted,
                 newVars, joinVars, sinkVars>>

NextMain ==
  \/ \E net \in DbNetworks, code \in DbIsoCodes : ReadNetwork(net, code)
  \/ CountryStep
  \/ CountriesDone
  \/ EndOfNetworks

Spec == InitMain /\ [][NextMain]_vars

(***************************************************************************)
(* addToSet: the hand-over to the nftables set.                            *)
(***************************************************************************)
\* The collection of the first n of the networks 0.0.0.2/31, 0.0.0.6/31,
\* 0.0.0.10/31, ...: disjoint and not adjacent, as the merge loop leaves them.
SinkCollection ==
  [k \in 1..MaxSinkIntervals |->
     NewInterval([addr |-> To4(i2IP(U32(4 * k - 2))), ones |-> 31])]

SinkSizes ==
  {n \in 0..MaxSinkIntervals :
     \/ n <= 3
     \/ n \in (batchSize \div 2 - 1)..(batchSize \div 2 + 1)
     \/ n >= MaxSinkIntervals - 3}

\* Lines 138-150: two elements per non-nil Interval
SetElements(coll) ==
  LET present == SelectSeq(coll, LAMBDA p : p # Nil)
  IN [k \in 1..(2 * Len(present)) |->
        IF k % 2 = 1
        THEN [Key |-> To4(Lower(present[(k + 1) \div 2])), IntervalEnd |-> FALSE]
        ELSE [Key |-> To4(Upper(present[k \div 2])), IntervalEnd |-> TRUE]]

\* A wrong batch end that is one element too far.
BatchEndOffByOne(s, n) == IF s + batchSize + 1 > n THEN n ELSE s + batchSize + 1

\* Lines 153-156: the end of the batch that starts at s, of n elements
BatchEnd(s, n) == IF s + batchSize > n THEN n ELSE s + batchSize

\* elements[s:e]
Slice(seq, s, e) == SubSeq(seq, s + 1, e)

InitSink ==
  /\ \E n \in SinkSizes : given = SubSeq(SinkCollection, 1, n)
  /\ elements = <<>> /\ start = 0 /\ batches = <<>> /\ submitted = <<>>
  /\ flushes = 0 /\ err = "" /\ spc = "lookup"
  /\ MainIdle /\ NewIdle /\ JoinIdle

\* Lines 116-150: the set is looked up and the elements are built
Lookup(outcome) ==
  /\ spc = "lookup"
  /\ IF outcome = "found"
     THEN /\ elements' = SetElements(given)
          /\ spc' = IF 0 < Len(elements') THEN "add" ELSE "done"
          /\ err' = ""
     ELSE /\ spc' = "error" /\ err' = outcome /\ UNCHANGED elements
  /\ UNCHANGED <<given, start, batches, submitted, flushes,
                 mainVars, newVars, joinVars>>

\* Lines 152-168: conn.SetAddElements(set, elements[start:end])
AddBatch(ok) ==
  /\ spc = "add"
  /\ LET end == BatchEnd(start, Len(elements))
     IN /\ batches' = Append(batches, <<start, end>>)
        /\ submitted' = submitted \o Slice(elements, start, end)
  /\ IF ok THEN spc' = "flush" /\ err' = ""
     ELSE spc' = "error" /\ err' = "SetAddElements"
  /\ UNCHANGED <<given, elements, start, flushes, mainVars, newVars, joinVars>>

\* Lines 169-173 and the loop's step: conn.Flush(), then start += batchSize
FlushBatch(ok) ==
  /\ spc = "flush"
  /\ flushes' = flushes + 1
  /\ IF ok
     THEN /\ start' = start + batchSize
          /\ spc' = IF start' < Len(elements) THEN "add" ELSE "done"
          /\ err' = ""
     ELSE /\ spc' = "error" /\ err' = "Flush" /\ UNCHANGED start
  /\ UNCHANGED <<given, elements, batches, submitted, mainVars, newVars, joinVars>>

NextSink ==
  \/ \E outcome \in {"ListTables", "GetSetByName", "could not find a set", "found"} :
       Lookup(outcome)
  \/ \E ok \in BOOLEAN : AddBatch(ok)
  \/ \E ok \in BOOLEAN : FlushBatch(ok)

SpecSink == InitSink /\ [][NextSink]_vars

(***************************************************************************)
(* Properties.                                                             *)
(***************************************************************************)
Lo(p) == Deref(p).lower.IntValue

Up(p) == Deref(p).upper.IntValue

\* lower < upper: the half-open range [lower, upper) is not empty
ProperRange(p) == U32Less(Lo(p), Up(p))

\* Address ordinal o lies in the half-open range of p
Covers(p, o) == U32Leq(Lo(p), o) /\ U32Less(o, Up(p))

U32Smaller(x, y) == IF U32Leq(x, y) THEN x ELSE y

U32Larger(x, y) == IF U32Leq(x, y) THEN y ELSE x

Entries == {intervals[i] : i \in 1..Len(intervals)}

\* C1: after any sequence of Inserts the collection is pairwise disjoint and
\* non-adjacent: of two distinct entries one ends strictly before the other
\* starts.
C1_DisjointNonAdjacent ==
  \A i, j \in 1..Len(intervals) :
    i # j => \/ U32Less(Up(intervals[i]), Lo(intervals[j]))
             \/ U32Less(Up(intervals[j]), Lo(intervals[i]))

\* C2: for valid Intervals a and b (lower < upper), CanJoin(a, b) is true
\* exactly when the half-open ranges overlap or touch, that is when
\* max(a.lower, b.lower) <= min(a.upper, b.upper); so it is true of (X, X)
\* and false across a gap of at least one address.
C2_CanJoinIsOverlapOrTouch ==
  (jpc = "done" /\ ProperRange(opA) /\ ProperRange(opB)) =>
    /\ canAB = U32Leq(U32Larger(Lo(opA), Lo(opB)), U32Smaller(Up(opA), Up(opB)))
    /\ (opA = opB => canAB)
    /\ (U32Less(Up(opA), Lo(opB)) \/ U32Less(Up(opB), Lo(opA)) => ~canAB)

\* C2's case: two valid ranges that touch without overlapping were compared.
C2_Witness ==
  /\ jpc = "done" /\ ProperRange(opA) /\ ProperRange(opB)
  /\ Up(opB) = Lo(opA) /\ canAB

\* C3 as stated: there are Intervals a and b on which CanJoin(a, b) and
\* CanJoin(b, a) differ.
C3_NotSymmetric ==
  jpc = "done" =>
    \E x \in Intervals, y \in Intervals : CanJoin(x, y) # CanJoin(y, x)

\* C3 as amended: CanJoin is symmetric, CanJoin(a, b) = CanJoin(b, a) for all
\* Intervals a and b (the second case of one order is the first of the other).
C3_Symmetric == jpc = "done" => canAB = canBA

\* C3's case: a pair that only the second case of CanJoin(a, b) accepts.
C3_Witness ==
  /\ jpc = "done" /\ canAB /\ canBA
  /\ U32Less(Lo(opB), Lo(opA)) /\ U32Less(Up(opB), Up(opA))

\* C4: for an IPv4 CIDR string with prefix length below 32 from which
\* NewInterval makes an Interval, lower is the address with the host bits
\* cleared and upper is the address with the host bits set, plus one, also
\* when the address as written has host bits set.
C4_NetworkAndBroadcastPlusOne ==
  (npc = "done" /\ Len(cidr.addr) = 4 /\ cidr.ones < 32 /\ created # Nil) =>
    LET m == CIDRMask(cidr.ones, 32)
        net == AndBytes(cidr.addr, m)
        bc == [i \in 1..4 |-> BitOr(cidr.addr[i], BitNot(m[i]))]
    IN /\ Deref(created).lower.IPAddress = net
       /\ Lo(created) = a2i(net)
       /\ Up(created) = U32Inc(a2i(bc))

\* C6: the successor of 255.255.255.255 wraps to ordinal 0, which Valid
\* rejects; NewInterval makes no Interval from a CIDR whose broadcast address
\* is 255.255.255.255, and no Interval has upper ordinal 0.
C6_NoSuccessorAtTop ==
  /\ Next(AddressOf(U32Max)) # Nil
  /\ Deref(Next(AddressOf(U32Max))).IntValue = U32Zero
  /\ ~Valid(Deref(Next(AddressOf(U32Max))))
  /\ (npc = "done" /\ Len(cidr.addr) = 4 /\ cidr.ones <= 32) =>
       (Deref(broadcast(ParseCIDR(cidr).subnet)).IntValue = U32Max => created = Nil)
  /\ (npc = "done" /\ created # Nil) => Up(created) # U32Zero

\* C6's case: NewInterval was applied to a network, not a host route, that
\* ends at 255.255.255.255.
C6_Witness ==
  /\ npc = "done" /\ Len(cidr.addr) = 4 /\ cidr.ones < 32
  /\ ~isZeros(cidr.addr)
  /\ Deref(broadcast(ParseCIDR(cidr).subnet)).IntValue = U32Max
  /\ created = Nil

\* C5: Join(a, b) fails when CanJoin(a, b) is false; otherwise it returns an
\* Interval from the smaller lower to the larger upper, which covers exactly
\* the union of the two ranges; the inputs are as they were.
\* (Every bound is one of JoinOrdinals, so a range is a union of the segments
\* between consecutive ordinals of that set, and the ordinals decide coverage.)
C5_JoinIsUnion ==
  jpc = "done" =>
    /\ (~CanJoin(opA, opB) => joined = Nil)
    /\ (CanJoin(opA, opB) =>
          /\ joined # Nil
          /\ Lo(joined) = U32Smaller(Lo(opA), Lo(opB))
          /\ Up(joined) = U32Larger(Up(opA), Up(opB))
          /\ \A o \in JoinOrdinals :
               Covers(joined, o) <=> (Covers(opA, o) \/ Covers(opB, o)))

\* C5's case: two valid ranges that overlap without one holding the other
\* were joined.
C5_Witness ==
  /\ jpc = "done" /\ joined # Nil
  /\ ProperRange(opA) /\ ProperRange(opB)
  /\ U32Less(Lo(opB), Lo(opA)) /\ U32Less(Lo(opA), Up(opB))
  /\ U32Less(Up(opB), Up(opA))

\* C7: every Interval of the system has 0 < lower < upper: the one
\* NewInterval has just returned, every one given to the merge scan, and
\* every entry of the collection.
C7_ProperIntervals ==
  \A p \in Entries \cup inserted \cup (IF new = Nil THEN {} ELSE {new}) :
    /\ p # Nil
    /\ U32Less(U32Zero, Lo(p))
    /\ ProperRange(p)

\* C7's case: the collection holds an entry made by Join.
C7_Witness ==
  /\ pc = "done"
  /\ \E p \in Entries : p \notin inserted

\* C8: one Insert changes at most one position: the first joinable entry is
\* replaced by the join and nothing else changes, or, when no entry is
\* joinable, new is appended; the length never decreases.
C8_InsertFrame ==
  [][ /\ Len(intervals') >= Len(intervals)
      /\ (pc = "country" /\ ci <= Len(countries) /\ iso = countries[ci]
          /\ new' # Nil) =>
           LET J == {i \in 1..Len(intervals) : CanJoin(new', intervals[i])}
           IN IF J # {}
              THEN /\ Len(intervals') = Len(intervals)
                   /\ \A i \in J :
                        intervals'[i] =
                          IF \A j \in J : i <= j
                          THEN Join(new', intervals[i]) ELSE intervals[i]
                   /\ \A i \in (1..Len(intervals)) \ J :
                        intervals'[i] = intervals[i]
              ELSE intervals' = Append(intervals, new')
      /\ ~(pc = "country" /\ ci <= Len(countries) /\ iso = countries[ci]
           /\ new' # Nil) => intervals' = intervals
    ]_vars

\* C8's case: new was joined into one entry while a later entry it can also
\* be joined with was left as it was.
C8_Witness ==
  /\ new # Nil
  /\ \E i, j \in 1..Len(intervals) :
       /\ i < j
       /\ CanJoin(new, intervals[i]) /\ CanJoin(new, intervals[j])
       /\ intervals[j] \in inserted

\* The addresses 10.0.255.248 .. 10.1.0.7, which hold every range the
\* networks of DbNetworks can give
Window ==
  {a2i(<<10, 0, 255, b>>) : b \in 248..255} \cup {a2i(<<10, 1, 0, b>>) : b \in 0..7}

\* C9: the addresses the collection covers are exactly the addresses the
\* inserted Intervals cover.
C9_CoveragePreserved ==
  /\ \A p \in Entries \cup inserted :
       /\ U32Leq(a2i(<<10, 0, 255, 248>>), Lo(p))
       /\ U32Leq(Up(p), a2i(<<10, 1, 0, 8>>))
  /\ {o \in Window : \E p \in Entries : Covers(p, o)}
       = {o \in Window : \E p \in inserted : Covers(p, o)}

\* C9's case: three ranges were inserted and joins left fewer entries.
C9_Witness ==
  /\ Cardinality(inserted) >= 3
  /\ Len(intervals) >= 1
  /\ Len(intervals) < Cardinality(inserted)
  /\ \E p \in Entries : p \notin inserted

\* C10: the elements are two per Interval in collection order (lower, then
\* upper flagged as interval end); they are submitted in consecutive batches
\* of at most batchSize elements, each followed by a Flush before the next;
\* a run without error has submitted every element once; after the first
\* failing call nothing more is submitted.
C10_BatchedHandOver ==
  /\ spc \in {"add", "flush", "done"} =>
       /\ Len(elements) = 2 * Len(given)
       /\ \A k \in 1..Len(given) :
            /\ elements[2 * k - 1] =
                 [Key |-> Deref(given[k]).lower.IPAddress, IntervalEnd |-> FALSE]
            /\ elements[2 * k] =
                 [Key |-> Deref(given[k]).upper.IPAddress, IntervalEnd |-> TRUE]
  /\ Len(submitted) <= Len(elements)
  /\ submitted = SubSeq(elements, 1, Len(submitted))
  /\ \A i \in 1..Len(batches) :
       /\ batches[i][1] = (IF i = 1 THEN 0 ELSE batches[i - 1][2])
       /\ batches[i][1] < batches[i][2]
       /\ batches[i][2] - batches[i][1] <= batchSize
       /\ (i < Len(batches) => batches[i][2] - batches[i][1] = batchSize)
  /\ Len(submitted) = (IF batches = <<>> THEN 0 ELSE batches[Len(batches)][2])
  /\ spc \in {"add", "done"} => flushes = Len(batches)
  /\ spc = "flush" => flushes = Len(batches) - 1
  /\ spc = "done" => submitted = elements /\ err = ""
  /\ spc = "error" =>
       /\ err # ""
       /\ flushes \in {Len(batches) - 1, Len(batches)}
       /\ flushes >= 0
       /\ ~ENABLED NextSink

\* C10's case: a third batch was submitted after two flushed batches.
C10_Witness ==
  /\ spc = "done"
  /\ Len(batches) = 3 /\ flushes = 3
  /\ Len(elements) > 2 * batchSize

====
